---- MODULE Spec2Model ----
(***************************************************************************)
(* AVL search trees of AppliedGo/generictree.                              *)
(*                                                                         *)
(*   generictree.go   Node[Value, Data] with a cached subtree height;      *)
(*                    Insert returns the (possibly rotated) subtree root.  *)
(*   balancedtree.go  Node with a cached balance factor bal; Insert        *)
(*                    threads the parent node p and relinks in place.      *)
(*                                                                         *)
(* Definitions prefixed G_ model generictree.go, definitions prefixed B_   *)
(* model balancedtree.go.  Both programs are Go heaps of nodes reached by  *)
(* pointers: a heap is a function from node addresses to node records and  *)
(* NIL is the nil pointer.  A node is never freed and holds the key it     *)
(* was created with for ever, so the address of the node that              *)
(* &Node{Value: value, ...} allocates is written `value`.  Keys are the    *)
(* ranks 1..MaxKey of the keys in their order (1 < 2 < ... as "a" < "b"    *)
(* < ...).  A nil dereference panics: every operator returns ok = FALSE    *)
(* when the Go code would dereference nil, and the program then stops.     *)
(***************************************************************************)
EXTENDS Integers, Sequences, FiniteSets, TLC

\* Spec inserts the keys 1..MaxKey, all with the payload "delta".
MaxKey == 6
\* SpecMap inserts, finds and traverses the keys 1..MaxMapKey with either
\* payload of DataSet.
MaxMapKey == 4

NIL == 0
Keys == 1..MaxKey
MapKeys == 1..MaxMapKey
DataSet == {"delta", "golf"}
\* The zero value of the Data type (string): `var zero Data`, *new(Data), "".
ZeroData == ""
\* Address of the tempParent node of balancedtree.go's Tree.Insert.
TempParent == -1

max(a, b) == IF a > b THEN a ELSE b

\* The result of a call: the heap it leaves, the log of rebalance calls, the
\* returned value, and ok = FALSE when the call panicked.
Ok(h, log, ret) == [heap |-> h, log |-> log, ret |-> ret, ok |-> TRUE]
Panic(h, log) == [heap |-> h, log |-> log, ret |-> NIL, ok |-> FALSE]

\* Statement sequencing: v is evaluated once, then F runs on its value.
Then(v, F(_)) == CHOOSE r \in {F(x) : x \in {v}} : TRUE

(***************************************************************************)
(* generictree.go                                                          *)
(***************************************************************************)
\* A new node without `height: 1`.
G_NewNode_height0(value, data) ==
    [Value |-> value, Data |-> data, Left |-> NIL, Right |-> NIL, height |-> 0]

G_NewNode(value, data) ==
    [Value |-> value, Data |-> data, Left |-> NIL, Right |-> NIL, height |-> 1]

G_Height(h, n) == IF n = NIL THEN 0 ELSE h[n].height

\* Bal with the two heights exchanged.
G_Bal_flipped(h, n) == G_Height(h, h[n].Left) - G_Height(h, h[n].Right)

\* n is not nil where Bal is used; the callers check and panic otherwise.
G_Bal(h, n) == G_Height(h, h[n].Right) - G_Height(h, h[n].Left)

\* The height set from the left child alone.
G_SetHeight_leftOnly(h, n) ==
    [h EXCEPT ![n].height = G_Height(h, h[n].Left) + 1]

\* n.height = max(n.Left.Height(), n.Right.Height()) + 1
G_SetHeight(h, n) ==
    [h EXCEPT ![n].height = max(G_Height(h, h[n].Left), G_Height(h, h[n].Right)) + 1]

\* rotateLeft leaving the height of the old root as it was.
G_rotateLeft_staleHeight(h, log, n) ==
    IF n = NIL THEN Panic(h, log)
    ELSE IF h[n].Right = NIL THEN Panic(h, log)
    ELSE LET r == h[n].Right
             h1 == [h EXCEPT ![n].Right = h[r].Left]
             h2 == [h1 EXCEPT ![r].Left = n]
             h4 == G_SetHeight(h2, r)
         IN Ok(h4, log, r)

\* rotateLeft hanging the old root on the wrong side of the new one.
G_rotateLeft_wrongSide(h, log, n) ==
    IF n = NIL THEN Panic(h, log)
    ELSE IF h[n].Right = NIL THEN Panic(h, log)
    ELSE LET r == h[n].Right
             h1 == [h EXCEPT ![n].Right = h[r].Left]
             h2 == [h1 EXCEPT ![r].Right = n]
             h3 == G_SetHeight(h2, n)
             h4 == G_SetHeight(h3, r)
         IN Ok(h4, log, r)

G_rotateLeft(h, log, n) ==
    IF n = NIL THEN Panic(h, log)
    ELSE IF h[n].Right = NIL THEN Panic(h, log)
    ELSE LET r == h[n].Right
             h1 == [h EXCEPT ![n].Right = h[r].Left]
             h2 == [h1 EXCEPT ![r].Left = n]
             h3 == G_SetHeight(h2, n)
             h4 == G_SetHeight(h3, r)
         IN Ok(h4, log, r)

\* rotateRight setting the height of the new root before that of the old one.
G_rotateRight_rootFirst(h, log, n) ==
    IF n = NIL THEN Panic(h, log)
    ELSE IF h[n].Left = NIL THEN Panic(h, log)
    ELSE LET l == h[n].Left
             h1 == [h EXCEPT ![n].Left = h[l].Right]
             h2 == [h1 EXCEPT ![l].Right = n]
             h3 == G_SetHeight(h2, l)
             h4 == G_SetHeight(h3, n)
         IN Ok(h4, log, l)

G_rotateRight(h, log, n) ==
    IF n = NIL THEN Panic(h, log)
    ELSE IF h[n].Left = NIL THEN Panic(h, log)
    ELSE LET l == h[n].Left
             h1 == [h EXCEPT ![n].Left = h[l].Right]
             h2 == [h1 EXCEPT ![l].Right = n]
             h3 == G_SetHeight(h2, n)
             h4 == G_SetHeight(h3, l)
         IN Ok(h4, log, l)

G_rotateRightLeft(h, log, n) ==
    Then(G_rotateRight(h, log, h[n].Right), LAMBDA a :
        IF ~a.ok THEN a
        ELSE Then(G_rotateLeft([a.heap EXCEPT ![n].Right = a.ret], a.log, n), LAMBDA b :
            IF ~b.ok THEN b
            ELSE Ok(G_SetHeight(b.heap, b.ret), b.log, b.ret)))

\* rotateLeftRight stopping after its first rotation.
G_rotateLeftRight_half(h, log, n) ==
    Then(G_rotateLeft(h, log, h[n].Left), LAMBDA a :
        IF ~a.ok THEN a
        ELSE Ok(G_SetHeight([a.heap EXCEPT ![n].Left = a.ret], n), a.log, n))

G_rotateLeftRight(h, log, n) ==
    Then(G_rotateLeft(h, log, h[n].Left), LAMBDA a :
        IF ~a.ok THEN a
        ELSE Then(G_rotateRight([a.heap EXCEPT ![n].Left = a.ret], a.log, n), LAMBDA b :
            IF ~b.ok THEN b
            ELSE Ok(G_SetHeight(b.heap, b.ret), b.log, b.ret)))

\* One log entry per call of Node.rebalance: the node, its balance, the
\* balance of the child on the heavy side (0 when the node is not out of
\* balance) and the switch case taken ("none" when no case matches).  The
\* entry with case "Tree.rebalance" records that Tree.Insert called
\* Tree.rebalance.
G_Event(h, n, case) ==
    [n |-> n, bal |-> G_Bal(h, n),
     child |-> IF G_Bal(h, n) < -1 /\ h[n].Left # NIL THEN G_Bal(h, h[n].Left)
               ELSE IF G_Bal(h, n) > 1 /\ h[n].Right # NIL THEN G_Bal(h, h[n].Right)
               ELSE 0,
     case |-> case]

\* The switch repeating the test of its second case in its last one, so that
\* a right-heavy node with a left-leaning right child is left as it is.
G_Case_noRightLeft(h, n) ==
    IF G_Bal(h, n) < -1 /\ G_Bal(h, h[n].Left) = -1 THEN "rotateRight"
    ELSE IF G_Bal(h, n) > 1 /\ G_Bal(h, h[n].Right) = 1 THEN "rotateLeft"
    ELSE IF G_Bal(h, n) < -1 /\ G_Bal(h, h[n].Left) = 1 THEN "rotateLeftRight"
    ELSE IF G_Bal(h, n) > 1 /\ G_Bal(h, h[n].Right) = 1 THEN "rotateRightLeft"
    ELSE "none"

\* The switch of rebalance: the first case that matches.
G_Case(h, n) ==
    IF G_Bal(h, n) < -1 /\ G_Bal(h, h[n].Left) = -1 THEN "rotateRight"
    ELSE IF G_Bal(h, n) > 1 /\ G_Bal(h, h[n].Right) = 1 THEN "rotateLeft"
    ELSE IF G_Bal(h, n) < -1 /\ G_Bal(h, h[n].Left) = 1 THEN "rotateLeftRight"
    ELSE IF G_Bal(h, n) > 1 /\ G_Bal(h, h[n].Right) = -1 THEN "rotateRightLeft"
    ELSE "none"

G_rebalance(h, log, n) ==
    IF n = NIL THEN Panic(h, log)
    ELSE IF G_Bal(h, n) < -1 /\ h[n].Left = NIL THEN Panic(h, log)
    ELSE IF G_Bal(h, n) > 1 /\ h[n].Right = NIL THEN Panic(h, log)
    ELSE Then(G_Case(h, n), LAMBDA case :
        Then(Append(log, G_Event(h, n, case)), LAMBDA log1 :
            IF case = "rotateRight" THEN G_rotateRight(h, log1, n)
            ELSE IF case = "rotateLeft" THEN G_rotateLeft(h, log1, n)
            ELSE IF case = "rotateLeftRight" THEN G_rotateLeftRight(h, log1, n)
            ELSE IF case = "rotateRightLeft" THEN G_rotateRightLeft(h, log1, n)
            ELSE Ok(h, log1, n)))

\* Insert storing a fresh node, with the old children, for a key it finds.
G_Overwrite_fresh(h, n, value, data) ==
    [h EXCEPT ![n] = [G_NewNode(value, data) EXCEPT
                         !.Left = h[n].Left, !.Right = h[n].Right]]

\* The node Insert returns for a key it finds: n itself, with the new data.
G_Overwrite(h, n, value, data) == [h EXCEPT ![n].Data = data]

RECURSIVE G_Node_Insert(_, _, _, _, _)
G_Node_Insert(h, log, n, value, data) ==
    IF n = NIL
        THEN Ok((value :> G_NewNode(value, data)) @@ h, log, value)
    ELSE IF h[n].Value = value
        THEN Ok(G_Overwrite(h, n, value, data), log, n)
    ELSE Then(IF value < h[n].Value
                THEN G_Node_Insert(h, log, h[n].Left, value, data)
                ELSE G_Node_Insert(h, log, h[n].Right, value, data),
              LAMBDA c :
        IF ~c.ok THEN c
        ELSE LET h1 == IF value < h[n].Value
                         THEN [c.heap EXCEPT ![n].Left = c.ret]
                         ELSE [c.heap EXCEPT ![n].Right = c.ret]
                 h2 == G_SetHeight(h1, n)
             IN G_rebalance(h2, c.log, n))

\* Find descending to the right for a smaller key.
G_Find_child_swapped(h, n, s) == IF s < h[n].Value THEN h[n].Right ELSE h[n].Left

\* Where Find goes from node n for the key s, which is not n's key.
G_Find_child(h, n, s) == IF s < h[n].Value THEN h[n].Left ELSE h[n].Right

RECURSIVE G_Node_Find(_, _, _)
G_Node_Find(h, n, s) ==
    IF n = NIL THEN <<ZeroData, FALSE>>
    ELSE IF s = h[n].Value THEN <<h[n].Data, TRUE>>
    ELSE G_Node_Find(h, G_Find_child(h, n, s), s)

\* Tree.rebalance: t is never nil here; root is t.Root.
G_Tree_rebalance(h, log, root) ==
    IF root = NIL THEN Ok(h, log, root)
    ELSE G_rebalance(h, log, root)

\* Tree.Insert: ret is the new t.Root.
G_Tree_Insert(h, root, value, data) ==
    Then(G_Node_Insert(h, <<>>, root, value, data), LAMBDA a :
        IF ~a.ok THEN a
        ELSE IF a.ret = NIL THEN Panic(a.heap, a.log)
        ELSE IF G_Bal(a.heap, a.ret) < -1 \/ G_Bal(a.heap, a.ret) > 1
            THEN G_Tree_rebalance(a.heap,
                     Append(a.log, G_Event(a.heap, a.ret, "Tree.rebalance")), a.ret)
        ELSE a)

G_Tree_Find(h, root, s) ==
    IF root = NIL THEN <<ZeroData, FALSE>>
    ELSE G_Node_Find(h, root, s)

\* The order of PrettyPrint's walk: right subtree first.
G_Visit_rightFirst(left, n, right) == right \o <<n>> \o left

\* The order of Traverse at one node: left subtree, the node, right subtree.
G_Visit(left, n, right) == left \o <<n>> \o right

\* Tree.Traverse with f appending the visited node to a list.
RECURSIVE G_Tree_Traverse(_, _)
G_Tree_Traverse(h, n) ==
    IF n = NIL THEN <<>>
    ELSE G_Visit(G_Tree_Traverse(h, h[n].Left), n, G_Tree_Traverse(h, h[n].Right))

(***************************************************************************)
(* balancedtree.go                                                         *)
(***************************************************************************)
\* The number of levels of the subtree rooted at n, counted along the links.
RECURSIVE B_Levels(_, _)
B_Levels(h, n) ==
    IF n = NIL THEN 0
    ELSE 1 + max(B_Levels(h, h[n].Left), B_Levels(h, h[n].Right))

B_NewNode(value, data) ==
    [Value |-> value, Data |-> data, Left |-> NIL, Right |-> NIL, bal |-> 0]

\* if p != nil { if n == p.Left { p.Left = c } else { p.Right = c } }
B_Relink(h, p, n, c) ==
    IF p = NIL THEN h
    ELSE IF n = h[p].Left THEN [h EXCEPT ![p].Left = c]
    ELSE [h EXCEPT ![p].Right = c]

B_rotateLeft(h, log, n, p) ==
    IF n = NIL THEN Panic(h, log)
    ELSE IF h[n].Right = NIL THEN Panic(h, log)
    ELSE LET r == h[n].Right
             h1 == [h EXCEPT ![n].Right = h[r].Left]
             h2 == [h1 EXCEPT ![r].Left = n]
             h3 == B_Relink(h2, p, n, r)
             h4 == [h3 EXCEPT ![n].bal = 0]
             h5 == [h4 EXCEPT ![r].bal = 0]
         IN Ok(h5, log, r)

B_rotateRight(h, log, n, p) ==
    IF n = NIL THEN Panic(h, log)
    ELSE IF h[n].Left = NIL THEN Panic(h, log)
    ELSE LET l == h[n].Left
             h1 == [h EXCEPT ![n].Left = h[l].Right]
             h2 == [h1 EXCEPT ![l].Right = n]
             h3 == B_Relink(h2, p, n, l)
             h4 == [h3 EXCEPT ![n].bal = 0]
             h5 == [h4 EXCEPT ![l].bal = 0]
         IN Ok(h5, log, l)

B_rotateRightLeft(h, log, n, p) ==
    IF h[n].Right = NIL THEN Panic(h, log)
    ELSE IF h[h[n].Right].Left = NIL THEN Panic(h, log)
    ELSE Then(B_rotateRight([h EXCEPT ![h[h[n].Right].Left].bal = 1], log,
                            h[n].Right, n), LAMBDA a :
        IF ~a.ok THEN a
        ELSE IF a.heap[n].Right = NIL THEN Panic(a.heap, a.log)
        ELSE Then(B_rotateLeft([a.heap EXCEPT ![a.heap[n].Right].bal = 1], a.log,
                               n, p), LAMBDA b :
            IF ~b.ok THEN b ELSE Ok(b.heap, b.log, n)))

B_rotateLeftRight(h, log, n, p) ==
    IF h[n].Left = NIL THEN Panic(h, log)
    ELSE IF h[h[n].Left].Right = NIL THEN Panic(h, log)
    ELSE Then(B_rotateLeft([h EXCEPT ![h[h[n].Left].Right].bal = -1], log,
                           h[n].Left, n), LAMBDA a :
        IF ~a.ok THEN a
        ELSE IF a.heap[n].Left = NIL THEN Panic(a.heap, a.log)
        ELSE Then(B_rotateRight([a.heap EXCEPT ![a.heap[n].Left].bal = -1], a.log,
                                n, p), LAMBDA b :
            IF ~b.ok THEN b ELSE Ok(b.heap, b.log, n)))

B_IsLeaf(h, n) == n # NIL /\ h[n].Left = NIL /\ h[n].Right = NIL

\* One log entry per call of rebalance: the node, its bal, the bal of the
\* child on the heavy side, the switch case taken, and for a double rotation
\* whether the grandchild that moves to the top is a leaf.
B_Event(h, n, case) ==
    [n |-> n, bal |-> h[n].bal,
     child |-> IF h[n].bal < -1 /\ h[n].Left # NIL THEN h[h[n].Left].bal
               ELSE IF h[n].bal > 1 /\ h[n].Right # NIL THEN h[h[n].Right].bal
               ELSE 0,
     case |-> case,
     leaf |-> IF case = "rotateLeftRight" THEN B_IsLeaf(h, h[h[n].Left].Right)
              ELSE IF case = "rotateRightLeft" THEN B_IsLeaf(h, h[h[n].Right].Left)
              ELSE TRUE]

\* The switch of rebalance: the first case that matches.
B_Case(h, n) ==
    IF h[n].bal = -2 /\ h[h[n].Left].bal <= 0 THEN "rotateRight"
    ELSE IF h[n].bal = 2 /\ h[h[n].Right].bal >= 0 THEN "rotateLeft"
    ELSE IF h[n].bal = -2 /\ h[h[n].Left].bal = 1 THEN "rotateLeftRight"
    ELSE IF h[n].bal = 2 /\ h[h[n].Right].bal = -1 THEN "rotateRightLeft"
    ELSE "none"

\* rebalance returns nothing: ret is n.
B_rebalance(h, log, n, p) ==
    IF n = NIL THEN Panic(h, log)
    ELSE IF h[n].bal = -2 /\ h[n].Left = NIL THEN Panic(h, log)
    ELSE IF h[n].bal = 2 /\ h[n].Right = NIL THEN Panic(h, log)
    ELSE Then(B_Case(h, n), LAMBDA case :
        Then(Append(log, B_Event(h, n, case)), LAMBDA log1 :
            Then(IF case = "rotateRight" THEN B_rotateRight(h, log1, n, p)
                 ELSE IF case = "rotateLeft" THEN B_rotateLeft(h, log1, n, p)
                 ELSE IF case = "rotateLeftRight" THEN B_rotateLeftRight(h, log1, n, p)
                 ELSE IF case = "rotateRightLeft" THEN B_rotateRightLeft(h, log1, n, p)
                 ELSE Ok(h, log1, n),
                 LAMBDA a : IF ~a.ok THEN a ELSE Ok(a.heap, a.log, n))))

\* The tail of Node.Insert: rebalance if bal left {-1,0,1}, then report
\* whether bal is non-zero.
B_Insert_finish(h, log, n, p) ==
    Then(IF h[n].bal < -1 \/ h[n].bal > 1
           THEN B_rebalance(h, log, n, p)
           ELSE Ok(h, log, n),
         LAMBDA a : IF ~a.ok THEN a ELSE Ok(a.heap, a.log, a.heap[n].bal # 0))

\* n.Left = &Node{...} (side "Left") or n.Right = &Node{...}, and the bal
\* that the other child decides.
B_Attach(h, n, side, value, data) ==
    LET h1 == (value :> B_NewNode(value, data)) @@ h IN
    IF side = "Left"
        THEN IF h[n].Right = NIL
               THEN [h1 EXCEPT ![n].Left = value, ![n].bal = -1]
               ELSE [h1 EXCEPT ![n].Left = value, ![n].bal = 0]
        ELSE IF h[n].Left = NIL
               THEN [h1 EXCEPT ![n].Right = value, ![n].bal = 1]
               ELSE [h1 EXCEPT ![n].Right = value, ![n].bal = 0]

\* The child of p in the place where n is its child in the heap h0.
B_Slot(h0, h, n, p) == IF n = h0[p].Left THEN h[p].Left ELSE h[p].Right

\* One log entry per return of Node.Insert: the node, the returned bool, and
\* the number of levels of the subtree in n's place under p, counted along
\* the child links, before the call (heap h0) and after it (heap h).
B_Return(h0, h, n, p, ret) ==
    [n |-> n, case |-> "return", ret |-> ret,
     before |-> B_Levels(h0, n),
     after |-> B_Levels(h, B_Slot(h0, h, n, p))]

\* Node.Insert with the key already at n (lines 214-216).
B_Insert_equal(h, log, n, data) == Ok([h EXCEPT ![n].Data = data], log, FALSE)

\* Node.Insert: ret is the returned bool.
RECURSIVE B_Node_Insert(_, _, _, _, _, _)
RECURSIVE B_Node_Insert_body(_, _, _, _, _, _)
B_Node_Insert(h, log, n, value, data, p) ==
    IF n = NIL THEN Panic(h, log)
    ELSE Then(B_Node_Insert_body(h, log, n, value, data, p), LAMBDA r :
        IF ~r.ok THEN r
        ELSE Ok(r.heap, Append(r.log, B_Return(h, r.heap, n, p, r.ret)), r.ret))

\* The statements of Node.Insert, for n that is not nil.
B_Node_Insert_body(h, log, n, value, data, p) ==
    IF value = h[n].Value
        THEN B_Insert_equal(h, log, n, data)
    ELSE Then(IF value < h[n].Value
                THEN IF h[n].Left = NIL
                       THEN Ok(B_Attach(h, n, "Left", value, data), log, FALSE)
                       ELSE Then(B_Node_Insert(h, log, h[n].Left, value, data, n),
                                 LAMBDA c :
                                IF c.ok /\ c.ret
                                    THEN Ok([c.heap EXCEPT ![n].bal = @ - 1], c.log, TRUE)
                                    ELSE c)
                ELSE IF h[n].Right = NIL
                       THEN Ok(B_Attach(h, n, "Right", value, data), log, FALSE)
                       ELSE Then(B_Node_Insert(h, log, h[n].Right, value, data, n),
                                 LAMBDA c :
                                IF c.ok /\ c.ret
                                    THEN Ok([c.heap EXCEPT ![n].bal = @ + 1], c.log, TRUE)
                                    ELSE c),
              LAMBDA a : IF ~a.ok THEN a ELSE B_Insert_finish(a.heap, a.log, n, p))

RECURSIVE B_Node_Find(_, _, _)
B_Node_Find(h, n, s) ==
    IF n = NIL THEN <<ZeroData, FALSE>>
    ELSE IF s = h[n].Value THEN <<h[n].Data, TRUE>>
    ELSE IF s < h[n].Value THEN B_Node_Find(h, h[n].Left, s)
    ELSE B_Node_Find(h, h[n].Right, s)

\* The heap without the tempParent node, which is garbage once Insert returns.
B_Drop(h) == [x \in DOMAIN h \ {TempParent} |-> h[x]]

\* Tree.Insert: ret is the new t.Root.
B_Tree_Insert(h, root, value, data) ==
    IF root = NIL
        THEN Ok((value :> B_NewNode(value, data)) @@ h, <<>>, value)
    ELSE Then(B_Node_Insert(
                  (TempParent :> [Value |-> 0, Data |-> ZeroData, Left |-> root,
                                  Right |-> NIL, bal |-> 0]) @@ h,
                  <<>>, root, value, data, TempParent),
              LAMBDA a :
        IF ~a.ok THEN Panic(B_Drop(a.heap), a.log)
        ELSE Ok(B_Drop(a.heap), a.log, a.heap[TempParent].Left))

B_Tree_Find(h, root, s) ==
    IF root = NIL THEN <<ZeroData, FALSE>>
    ELSE B_Node_Find(h, root, s)

RECURSIVE B_Tree_Traverse(_, _)
B_Tree_Traverse(h, n) ==
    IF n = NIL THEN <<>>
    ELSE B_Tree_Traverse(h, h[n].Left) \o <<n>> \o B_Tree_Traverse(h, h[n].Right)

\* The switch cases of rebalance that rotate.
RotationCases == {"rotateLeft", "rotateRight", "rotateLeftRight", "rotateRightLeft"}

Cases(log) == {log[i].case : i \in DOMAIN log}

Rotations(log) == Cases(log) \cap RotationCases

\* The entries of rebalance calls in a log, and those of Node.Insert returns.
Rebalances(log) == SelectSeq(log, LAMBDA e : e.case # "return")

Returns(log) == SelectSeq(log, LAMBDA e : e.case = "return")

\* The keys of a list of nodes.
KeysOf(h, nodes) == [i \in DOMAIN nodes |-> h[nodes[i]].Value]

(***************************************************************************)
(* The two programs run on the same calls, as both main functions do.      *)
(***************************************************************************)
VARIABLES
    gheap, groot,   \* generictree.go: the nodes and Tree.Root
    bheap, broot,   \* balancedtree.go: the nodes and Tree.Root
    gpanic, bpanic, \* the program has panicked on a nil dereference
    written,        \* history: key -> data of the most recent Insert, if any
    last            \* history: the last call, its arguments and results

vars == <<gheap, groot, bheap, broot, gpanic, bpanic, written, last>>

NoHeap == [x \in {} |-> 0]

Init ==
    /\ gheap = NoHeap /\ groot = NIL
    /\ bheap = NoHeap /\ broot = NIL
    /\ gpanic = FALSE /\ bpanic = FALSE
    /\ written = NoHeap
    /\ last = [op |-> "none"]

Running == ~gpanic /\ ~bpanic

\* The calls so far, this one included, are Insert(1), Insert(2), ...,
\* Insert(value), in this order.
Ascending123(value) ==
    \/ last.op = "none" /\ value = 1
    \/ last.op = "Insert" /\ last.asc /\ value = last.key + 1

\* tree.Insert(value, data) in both programs.
Insert(value, data) ==
    /\ Running
    /\ \E g \in {G_Tree_Insert(gheap, groot, value, data)},
          b \in {B_Tree_Insert(bheap, broot, value, data)} :
          /\ gheap' = g.heap /\ gpanic' = ~g.ok
          /\ groot' = IF g.ok THEN g.ret ELSE groot
          /\ bheap' = b.heap /\ bpanic' = ~b.ok
          /\ broot' = IF b.ok THEN b.ret ELSE broot
          /\ last' = [op |-> "Insert", key |-> value, data |-> data,
                      dup |-> value \in DOMAIN written,
                      prev |-> IF value \in DOMAIN written THEN written[value]
                               ELSE ZeroData,
                      asc |-> Ascending123(value),
                      glog |-> g.log, blog |-> Rebalances(b.log),
                      bret |-> Returns(b.log)]
    /\ written' = (value :> data) @@ written

\* The call before was an Insert that rotated in both programs.
AfterRotation ==
    /\ last.op = "Insert"
    /\ Rotations(last.glog) # {}
    /\ Rotations(last.blog) # {}

\* tree.Find(s) in both programs.
Find(s) ==
    /\ Running
    /\ last' = [op |-> "Find", key |-> s, rot |-> AfterRotation,
                g |-> G_Tree_Find(gheap, groot, s),
                b |-> B_Tree_Find(bheap, broot, s)]
    /\ UNCHANGED <<gheap, groot, bheap, broot, gpanic, bpanic, written>>

\* tree.Traverse(tree.Root, f) in both programs, f recording the key it is
\* called with.
Traverse ==
    /\ Running
    /\ last' = [op |-> "Traverse", rot |-> AfterRotation,
                g |-> KeysOf(gheap, G_Tree_Traverse(gheap, groot)),
                b |-> KeysOf(bheap, B_Tree_Traverse(bheap, broot))]
    /\ UNCHANGED <<gheap, groot, bheap, broot, gpanic, bpanic, written>>

\* Structure: every key, one payload.
Next == \E value \in Keys : Insert(value, "delta")

Spec == Init /\ [][Next]_vars

\* The map: fewer keys, both payloads, lookups and traversals.
NextMap ==
    \/ \E value \in MapKeys, data \in DataSet : Insert(value, data)
    \/ \E s \in MapKeys : Find(s)
    \/ Traverse

SpecMap == Init /\ [][NextMap]_vars

(***************************************************************************)
(* What the structure is, read from the child links alone.                 *)
(***************************************************************************)
\* The nodes of the subtree rooted at n.
RECURSIVE Subtree(_, _)
Subtree(h, n) ==
    IF n = NIL THEN {}
    ELSE {n} \cup Subtree(h, h[n].Left) \cup Subtree(h, h[n].Right)

\* The height of the subtree rooted at n; an empty subtree has height 0.
RECURSIVE ActualHeight(_, _)
ActualHeight(h, n) ==
    IF n = NIL THEN 0
    ELSE 1 + max(ActualHeight(h, h[n].Left), ActualHeight(h, h[n].Right))

ActualBal(h, n) == ActualHeight(h, h[n].Right) - ActualHeight(h, h[n].Left)

Balanced(h, root) ==
    \A n \in Subtree(h, root) : ActualBal(h, n) \in {-1, 0, 1}

Ordered(h, root) ==
    \A n \in Subtree(h, root) :
        /\ \A m \in Subtree(h, h[n].Left) : h[m].Value < h[n].Value
        /\ \A m \in Subtree(h, h[n].Right) : h[m].Value > h[n].Value

\* C1: generictree.go: after any sequence of Tree.Insert calls, the actual
\* heights of the two subtrees of every node differ by at most one.
C1_GenericBalanced == Balanced(gheap, groot)

\* Six nodes, the last of them inserted with a double rotation.
C1_Witness ==
    /\ last.op = "Insert" /\ ~gpanic
    /\ Cardinality(Subtree(gheap, groot)) = 6
    /\ Cases(last.glog) \cap {"rotateLeftRight", "rotateRightLeft"} # {}

\* C2: balancedtree.go: after any sequence of Tree.Insert calls, the actual
\* heights of the two subtrees of every node differ by at most one.
C2_BalancedBalanced == Balanced(bheap, broot)

\* C3: in both programs every node's left subtree holds only smaller keys and
\* its right subtree only greater keys, after any sequence of Tree.Insert calls.
C3_Ordered == Ordered(gheap, groot) /\ Ordered(bheap, broot)

\* Both trees hold six nodes and both rotated on the last insert.
C3_Witness ==
    /\ last.op = "Insert" /\ Running
    /\ Cardinality(Subtree(gheap, groot)) = 6
    /\ Cardinality(Subtree(bheap, broot)) = 6
    /\ Cases(last.glog) \cap {"rotateLeftRight", "rotateRightLeft"} # {}
    /\ Cases(last.blog) \cap {"rotateLeft", "rotateRight"} # {}

(***************************************************************************)
(* The map the trees implement.                                            *)
(***************************************************************************)
\* What Find(k) has to return after the Insert calls made so far.
Expected(k) ==
    IF k \in DOMAIN written THEN <<written[k], TRUE>> ELSE <<ZeroData, FALSE>>

\* The elements of a set of keys in ascending order.
RECURSIVE Ascending(_)
Ascending(S) ==
    IF S = {} THEN <<>>
    ELSE LET m == CHOOSE x \in S : \A y \in S : x <= y
         IN <<m>> \o Ascending(S \ {m})

InTree(h, root, k) == \E n \in Subtree(h, root) : h[n].Value = k

\* The heap h with the Data of every node holding k set to d, and nothing else
\* changed.
WithData(h, k, d) ==
    [n \in DOMAIN h |-> IF h[n].Value = k THEN [h[n] EXCEPT !.Data = d] ELSE h[n]]

\* C4: in both programs Tree.Find(k) returns the data of the most recent
\* Insert of k and true when k was inserted, the zero value and false when
\* it never was, the empty tree included.
C4_Find ==
    last.op = "Find" =>
        /\ last.g = Expected(last.key)
        /\ last.b = Expected(last.key)

\* Right after an Insert that rotated in both programs, Find returns the
\* overwritten payload of a key that is not at the root.
C4_Witness ==
    /\ last.op = "Find" /\ last.rot
    /\ last.g = <<"golf", TRUE>> /\ last.b = <<"golf", TRUE>>
    /\ last.key # groot /\ last.key # broot
    /\ \E k \in MapKeys : k \notin DOMAIN written

\* C5: in both programs Tree.Traverse(t.Root, f) calls f once for each
\* distinct inserted key, in ascending order of the keys, whatever the order
\* of the Insert calls was.
C5_Traverse ==
    last.op = "Traverse" =>
        /\ last.g = Ascending(DOMAIN written)
        /\ last.b = Ascending(DOMAIN written)

\* A traversal of three keys right after an Insert that rotated in both
\* programs.
C5_Witness ==
    /\ last.op = "Traverse" /\ last.rot
    /\ Len(last.g) = 3 /\ Len(last.b) = 3

\* C6: generictree.go: Tree.Insert(k, d) with k already in the tree changes
\* the Data of the node holding k and nothing else: the root, all child
\* links, keys and cached heights stay, and no rotation is performed.
C6_GenericOverwrite ==
    [][(last'.op = "Insert" /\ InTree(gheap, groot, last'.key)) =>
          /\ ~gpanic'
          /\ groot' = groot
          /\ gheap' = WithData(gheap, last'.key, last'.data)
          /\ Rotations(last'.glog) = {}
          /\ "Tree.rebalance" \notin Cases(last'.glog)]_vars

\* A key two levels below the root has just been overwritten with another
\* payload.
C6_Witness ==
    /\ last.op = "Insert" /\ last.dup /\ last.prev # last.data
    /\ groot # NIL /\ last.key # groot
    /\ last.key \notin {gheap[groot].Left, gheap[groot].Right}
    /\ gheap[last.key].Data = last.data

\* C7: balancedtree.go: Tree.Insert(k, d) with k already in the tree changes
\* the Data of the node holding k and nothing else: the root, all child
\* links and bal fields stay, and rebalance is not called on any ancestor.
C7_BalancedOverwrite ==
    [][(last'.op = "Insert" /\ InTree(bheap, broot, last'.key)) =>
          /\ ~bpanic'
          /\ broot' = broot
          /\ bheap' = WithData(bheap, last'.key, last'.data)
          /\ last'.blog = <<>>]_vars

\* The least number of nodes of an AVL tree of height h.
RECURSIVE MinNodes(_)
MinNodes(h) ==
    IF h = 0 THEN 0
    ELSE IF h = 1 THEN 1
    ELSE MinNodes(h - 1) + MinNodes(h - 2) + 1

\* C8: generictree.go: a tree whose root has height h (as Root.Height()
\* reports it, and as the links have it) holds at least N(h) nodes, N(0) = 0,
\* N(1) = 1, N(h) = N(h-1) + N(h-2) + 1; and Insert(1), ..., Insert(6) on an
\* empty tree end with Root.Height() = 3.
C8_HeightBound ==
    /\ Cardinality(Subtree(gheap, groot)) >= MinNodes(G_Height(gheap, groot))
    /\ Cardinality(Subtree(gheap, groot)) >= MinNodes(ActualHeight(gheap, groot))
    /\ (last.op = "Insert" /\ last.asc /\ last.key = 6) =>
           /\ G_Height(gheap, groot) = 3
           /\ ActualHeight(gheap, groot) = 3

\* The keys 1, ..., 6 have been inserted in ascending order.
C8_Witness ==
    /\ last.op = "Insert" /\ last.asc /\ last.key = 6
    /\ Cardinality(Subtree(gheap, groot)) = 6
    /\ G_Height(gheap, groot) = 3

\* C9: neither program dereferences a nil pointer, whatever the sequence of
\* calls: the nodes a rotation reads exist whenever rebalance dispatches to
\* it, and Insert on an empty tree does not read through the nil root.
C9_NoPanic == ~gpanic /\ ~bpanic

\* Six nodes in both trees, the last inserted with a double rotation in
\* balancedtree.go and a rotation in generictree.go.
C9_Witness ==
    /\ last.op = "Insert" /\ Running
    /\ Cardinality(Subtree(bheap, broot)) = 6
    /\ Cases(last.blog) \cap {"rotateLeftRight", "rotateRightLeft"} # {}
    /\ Rotations(last.glog) # {}

\* C10: balancedtree.go: after every Tree.Insert the bal field of every node
\* is the actual height of its right subtree minus that of its left subtree.
C10_BalCached ==
    \A n \in Subtree(bheap, broot) : bheap[n].bal = ActualBal(bheap, n)

(***************************************************************************)
(* What one Insert call does on its way down and up.                       *)
(***************************************************************************)
\* C11: balancedtree.go: Node.Insert returns true exactly when the subtree in
\* n's place (rooted at n before the call, at n or the node a rotation put
\* there after it) has more levels after the call than before; it returns
\* false whenever the number of levels is unchanged.
C11_ReturnsGrowth ==
    last.op = "Insert" =>
        \A i \in DOMAIN last.bret :
            last.bret[i].ret <=> (last.bret[i].after > last.bret[i].before)

\* C12: generictree.go: after every Tree.Insert the height field of every
\* node is one more than the larger of the actual heights of its two
\* subtrees, an empty subtree counting 0; the nodes moved by single and by
\* double rotations included.
C12_HeightCached ==
    \A n \in Subtree(gheap, groot) :
        gheap[n].height =
            1 + max(ActualHeight(gheap, gheap[n].Left),
                    ActualHeight(gheap, gheap[n].Right))

\* Five nodes, the last inserted with a double rotation below the root.
C12_Witness ==
    /\ last.op = "Insert" /\ ~gpanic
    /\ Cardinality(Subtree(gheap, groot)) = 5
    /\ \E i \in DOMAIN last.glog :
          /\ last.glog[i].case \in {"rotateLeftRight", "rotateRightLeft"}
          /\ last.glog[i].n # groot
          /\ last.glog[i].n \notin {gheap[groot].Left, gheap[groot].Right}

\* The node whose Left or Right is n; NIL when n is the root.
ParentOf(h, root, n) ==
    IF \E m \in Subtree(h, root) : n \in {h[m].Left, h[m].Right}
        THEN CHOOSE m \in Subtree(h, root) : n \in {h[m].Left, h[m].Right}
        ELSE NIL

\* The entries of a log that rotated.
Rotating(log) == {i \in DOMAIN log : log[i].case \in RotationCases}

\* C13: generictree.go: in one Tree.Insert call at most one call of
\* Node.rebalance rotates; it is the first one, on the way up, that finds a
\* balance outside {-1, 0, 1}; the subtree it returns (rooted at the node that
\* is the rotated node's parent afterwards) has the height the subtree at
\* this place had before the Insert; and no rebalance call above it rotates
\* or sees a node whose height changed.
C13_OneRotation ==
    [][last'.op = "Insert" =>
          /\ Cardinality(Rotating(last'.glog)) <= 1
          /\ \A i \in DOMAIN last'.glog :
                last'.glog[i].bal \notin {-1, 0, 1} => i \in Rotating(last'.glog)
          /\ \A i \in Rotating(last'.glog) :
                /\ ActualHeight(gheap', ParentOf(gheap', groot', last'.glog[i].n))
                       = ActualHeight(gheap, last'.glog[i].n)
                /\ \A j \in DOMAIN last'.glog :
                      j > i =>
                          /\ last'.glog[j].case = "none"
                          /\ ActualHeight(gheap', last'.glog[j].n)
                                 = ActualHeight(gheap, last'.glog[j].n)
                          /\ gheap'[last'.glog[j].n].height
                                 = gheap[last'.glog[j].n].height]_vars

\* The last Insert rotated below the root, in a tree of six nodes: the
\* rebalance call on the root, above the rotating one, found nothing to do.
C13_Witness ==
    /\ last.op = "Insert" /\ ~gpanic
    /\ Cardinality(Subtree(gheap, groot)) = 6
    /\ Len(last.glog) >= 2
    /\ Rotating(last.glog) = {Len(last.glog) - 1}
    /\ last.glog[Len(last.glog)].n = groot

\* C14: generictree.go: in Tree.Insert the balance of the root that
\* Node.Insert returned is in {-1, 0, 1}, so Tree.rebalance is never called.
C14_NoTreeRebalance ==
    last.op = "Insert" =>
        /\ "Tree.rebalance" \notin Cases(last.glog)
        /\ ~gpanic => G_Bal(gheap, groot) \in {-1, 0, 1}

\* The last Insert rotated at the root of a tree that now has six nodes.
C14_Witness ==
    /\ last.op = "Insert" /\ ~gpanic
    /\ Cardinality(Subtree(gheap, groot)) = 6
    /\ last.glog # <<>>
    /\ last.glog[Len(last.glog)].case \in RotationCases
    /\ last.glog[Len(last.glog)].n \in {gheap[groot].Left, gheap[groot].Right}

\* The entries of a log made by Node.rebalance (the others record that
\* Tree.Insert called Tree.rebalance).
NodeRebalances(log) == {i \in DOMAIN log : log[i].case # "Tree.rebalance"}

\* C15: generictree.go: when Node.rebalance is entered with Bal() < -1 the
\* left child's Bal() is -1 or 1, and with Bal() > 1 the right child's Bal()
\* is 1 or -1; so one of the four cases fires, it is the case that the tests
\* `<= 0` and `>= 0` of balancedtree.go would select, and the root of the
\* subtree returned has a balance in {-1, 0, 1}.
C15_SwitchCases ==
    (last.op = "Insert" /\ ~gpanic) =>
        \A i \in NodeRebalances(last.glog) :
            /\ last.glog[i].bal \notin {-1, 0, 1} => last.glog[i].child \in {-1, 1}
            /\ last.glog[i].bal \notin {-1, 0, 1} => last.glog[i].case \in RotationCases
            /\ last.glog[i].case = "rotateRight"
                   <=> (last.glog[i].bal < -1 /\ last.glog[i].child <= 0)
            /\ last.glog[i].case = "rotateLeft"
                   <=> (last.glog[i].bal > 1 /\ last.glog[i].child >= 0)
            /\ last.glog[i].case = "rotateLeftRight"
                   <=> (last.glog[i].bal < -1 /\ last.glog[i].child = 1)
            /\ last.glog[i].case = "rotateRightLeft"
                   <=> (last.glog[i].bal > 1 /\ last.glog[i].child = -1)
            /\ last.glog[i].case \in RotationCases =>
                   /\ G_Bal(gheap, ParentOf(gheap, groot, last.glog[i].n)) \in {-1, 0, 1}
                   /\ ActualBal(gheap, ParentOf(gheap, groot, last.glog[i].n)) \in {-1, 0, 1}
            /\ last.glog[i].case = "none" =>
                   G_Bal(gheap, last.glog[i].n) \in {-1, 0, 1}

\* Node.rebalance was entered with Bal() = 2 at a node whose right child had
\* Bal() = -1, in a tree of five nodes.
C15_Witness ==
    /\ last.op = "Insert" /\ ~gpanic
    /\ Cardinality(Subtree(gheap, groot)) = 5
    /\ \E i \in NodeRebalances(last.glog) :
          /\ last.glog[i].bal = 2 /\ last.glog[i].child = -1
          /\ last.glog[i].case = "rotateRightLeft"

\* C16: balancedtree.go: whenever rebalance calls rotateRightLeft on a node
\* n, n.Right.Left has no children, and whenever it calls rotateLeftRight,
\* n.Left.Right has no children.
C16_DoubleRotationLeaf ==
    last.op = "Insert" =>
        \A i \in DOMAIN last.blog :
            last.blog[i].case \in {"rotateRightLeft", "rotateLeftRight"}
                => last.blog[i].leaf

(***************************************************************************)
(* The two programs against each other.                                    *)
(***************************************************************************)
\* C17: after every sequence of Insert calls the tree of generictree.go and
\* the tree of balancedtree.go have the same structure: the same root key,
\* and for every node the same left child key, right child key and data.
C17_SameStructure ==
    Running =>
        /\ groot = broot
        /\ Subtree(gheap, groot) = Subtree(bheap, broot)
        /\ \A n \in Subtree(gheap, groot) :
              /\ gheap[n].Value = bheap[n].Value
              /\ gheap[n].Left = bheap[n].Left
              /\ gheap[n].Right = bheap[n].Right
              /\ gheap[n].Data = bheap[n].Data

====
